---- MODULE Spec2Model ----
(***************************************************************************)
(* Model of the JSON-RPC dispatch core of grin's jsonrpc crates:           *)
(* the parameter binder get_rpc_args, the generated per-procedure handler, *)
(* the add_rpc_method wrapper and the JSONRPCServer request engine         *)
(* (handle_call, handle_parsed, handle_raw), the result encoder to_result, *)
(* the registration of methods into an IoHandler, the hand-written         *)
(* handlers and binder of jsonrpcapi, and concurrent dispatch.             *)
(***************************************************************************)
EXTENDS Integers, Sequences, FiniteSets, TLC

VARIABLES
    op,         \* the operation that has run: "idle" before any has
    names,      \* declared parameter names handed to get_rpc_args
    params,     \* the Params payload handed to get_rpc_args
    key_order,  \* iteration order of the serde_json Map holding named params
    bound,      \* what get_rpc_args returned, or Pending before the call
    call,       \* the Call last handed to handle_call, or Idle
    output,     \* what handle_call returned for it
    invoked,    \* names of the procedures the last operation invoked, in order
    request,    \* the Request last handed to handle_parsed / raw input to handle_raw
    response,   \* what handle_parsed / handle_raw returned for it
    ret,        \* the procedure return value handed to to_result
    encoded,    \* what to_result returned for it, or Pending
    hmethod,    \* the procedure whose handler closure is run on its own
    hargs,      \* the bound argument list handed to that closure
    hresult,    \* what the closure returned, or Pending
    registry,   \* the IoHandler under construction: method name -> closure
    registrations,  \* the registrations made so far, in order: <<name, closure>>
    callers     \* the concurrent callers dispatching against the registry

vars == <<op, names, params, key_order, bound, call, output, invoked, request, response,
          ret, encoded, hmethod, hargs, hresult, registry, registrations, callers>>

bindVars == <<names, params, bound>>
serverVars == <<call, output, invoked, request, response>>
encodeVars == <<ret, encoded>>
decodeVars == <<hmethod, hargs, hresult>>
registerVars == <<registry, registrations, callers>>

-----------------------------------------------------------------------------
(* Bounds *)

MaxNames == 2       \* longest declared-name list drawn
MaxArgs == 3        \* longest positional payload drawn
MaxBatch == 3       \* longest batch drawn
MaxVecLen == 2      \* longest Vec<usize> return value drawn
MaxRegs == 3        \* most registrations made on one IoHandler
MaxCallers == 2     \* callers dispatching concurrently

-----------------------------------------------------------------------------
(* Wire values (serde_json::Value) *)

Null == <<"Null">>
Num(n) == <<"Number", n>>
Str(s) == <<"String", s>>
Arr(s) == <<"Array", s>>
Obj(f) == <<"Object", f>>

IsNum(v) == v[1] = "Number"
IsArr(v) == v[1] = "Array"

\* Option and Result
None == <<"None">>
Some(x) == <<"Some", x>>
IsSome(o) == o[1] = "Some"
Ok(x) == <<"Ok", x>>
Err(e) == <<"Err", e>>
IsOk(r) == r[1] = "Ok"
IsErr(r) == r[1] = "Err"

\* jsonrpc_core::Params
ParamsNone == <<"None">>
ParamsArray(ar) == <<"Array", ar>>
ParamsMap(ma) == <<"Map", ma>>

Pending == <<"Pending">>
Idle == <<"Idle">>

-----------------------------------------------------------------------------
(* Input universes *)

NameSet == {"a", "b", "lst"}
ExtraKeys == {"notanarg"}
Keys == NameSet \cup ExtraKeys

Values == {Num(1), Arr(<<>>)}

SeqsUpTo(S, n) == UNION {[1..k -> S] : k \in 0..n}

Range(s) == {s[i] : i \in DOMAIN s}

IsInjective(s) == \A i, j \in DOMAIN s : s[i] = s[j] => i = j

\* parameter names of one procedure are pairwise distinct identifiers
DeclaredNames == {s \in SeqsUpTo(NameSet, MaxNames) : IsInjective(s)}

Maps == UNION {[D -> Values] : D \in SUBSET Keys}

ParamPayloads ==
    {ParamsNone} \cup {ParamsArray(ar) : ar \in SeqsUpTo(Values, MaxArgs)}
                 \cup {ParamsMap(ma) : ma \in Maps}

KeyOrders == {s \in [1..Cardinality(Keys) -> Keys] : IsInjective(s)}

\* a panic, in place of the value a call would have returned
Panic(msg) == <<"Panic", msg>>
IsPanic(r) == r[1] = "Panic"

-----------------------------------------------------------------------------
(* InvalidArgs *)

WrongNumberOfArgs(e, a) == [kind |-> "WrongNumberOfArgs", expected |-> e, actual |-> a]
ExtraNamedParameter(n) == [kind |-> "ExtraNamedParameter", name |-> n]
MissingNamedParameter(n) == [kind |-> "MissingNamedParameter", name |-> n]
InvalidArgStructure(n, i) == [kind |-> "InvalidArgStructure", name |-> n, index |-> i]

-----------------------------------------------------------------------------
(* serde_json::Map operations used by the binder *)

\* variant of MapRemove that looks the key up and leaves it in the map
MapRemoveKeepsEntry(ma, k) ==
    IF k \in DOMAIN ma THEN <<Some(ma[k]), ma>> ELSE <<None, ma>>

\* Map::remove(key): the value removed (if any) and the map left behind
MapRemove(ma, k) ==
    IF k \in DOMAIN ma
        THEN <<Some(ma[k]), [x \in DOMAIN ma \ {k} |-> ma[x]]>>
        ELSE <<None, ma>>

\* variant of KeysNext that never reports a leftover key
KeysNextNever(ma) == None

\* Map::keys().next(): the first key in the map's iteration order
KeysNext(ma) ==
    IF DOMAIN ma = {}
        THEN None
        ELSE LET i == CHOOSE i \in DOMAIN key_order :
                        /\ key_order[i] \in DOMAIN ma
                        /\ \A j \in 1..(i - 1) : key_order[j] \notin DOMAIN ma
             IN  Some(key_order[i])

\* variant of NamedLoop that collects the values in reverse order
RECURSIVE NamedLoopReversed(_, _, _, _)
NamedLoopReversed(nms, i, ma, ar) ==
    IF i > Len(nms)
        THEN Ok(<<ar, ma>>)
        ELSE LET r == MapRemove(ma, nms[i])
             IN  IF IsSome(r[1])
                     THEN NamedLoopReversed(nms, i + 1, r[2], <<r[1][2]>> \o ar)
                     ELSE Err(MissingNamedParameter(nms[i]))

\* the `for name in names.iter()` loop of the Map arm, from position i on:
\* Err(..) on the first name the map does not hold, else Ok(<<ar, ma>>)
RECURSIVE NamedLoop(_, _, _, _)
NamedLoop(nms, i, ma, ar) ==
    IF i > Len(nms)
        THEN Ok(<<ar, ma>>)
        ELSE LET r == MapRemove(ma, nms[i])
             IN  IF IsSome(r[1])
                     THEN NamedLoop(nms, i + 1, r[2], Append(ar, r[1][2]))
                     ELSE Err(MissingNamedParameter(nms[i]))

\* variant of ArityCheck with the comparison inverted
ArityCheckInverted(nms, ar) ==
    IF Len(ar) = Len(nms)
        THEN Err(WrongNumberOfArgs(Len(ar), Len(nms)))
        ELSE Ok(ar)

\* variant of ArityCheck that only refuses a list that is too long
ArityCheck_AcceptsShort(nms, ar) ==
    IF Len(ar) > Len(nms)
        THEN Err(WrongNumberOfArgs(Len(ar), Len(nms)))
        ELSE Ok(ar)

\* the final arity check shared by the three arms
ArityCheck(nms, ar) ==
    IF Len(ar) # Len(nms)
        THEN Err(WrongNumberOfArgs(Len(ar), Len(nms)))
        ELSE Ok(ar)

\* variant of get_rpc_args that rejects an oversized map before looking up names
get_rpc_args_SizeFirst(nms, ps) ==
    CASE ps[1] = "Array" -> ArityCheck(nms, ps[2])
      [] ps[1] = "Map" ->
            IF Cardinality(DOMAIN ps[2]) > Len(nms)
                THEN Err(ExtraNamedParameter(KeysNext(ps[2])[2]))
                ELSE LET l == NamedLoop(nms, 1, ps[2], <<>>)
                     IN  IF IsErr(l)
                             THEN l
                             ELSE LET k == KeysNext(l[2][2])
                                  IN  IF IsSome(k)
                                          THEN Err(ExtraNamedParameter(k[2]))
                                          ELSE ArityCheck(nms, l[2][1])
      [] ps[1] = "None" -> ArityCheck(nms, <<>>)

\* variant of get_rpc_args whose None arm returns the empty list unchecked
get_rpc_args_NoneUnchecked(nms, ps) ==
    CASE ps[1] = "Array" -> ArityCheck(nms, ps[2])
      [] ps[1] = "Map" ->
            LET l == NamedLoop(nms, 1, ps[2], <<>>)
            IN  IF IsErr(l)
                    THEN l
                    ELSE LET k == KeysNext(l[2][2])
                         IN  IF IsSome(k)
                                 THEN Err(ExtraNamedParameter(k[2]))
                                 ELSE ArityCheck(nms, l[2][1])
      [] ps[1] = "None" -> Ok(<<>>)

\* get_rpc_args of jsonrpc and jsonrpc_interface (the two are the same text)
get_rpc_args(nms, ps) ==
    CASE ps[1] = "Array" -> ArityCheck(nms, ps[2])
      [] ps[1] = "Map" ->
            LET l == NamedLoop(nms, 1, ps[2], <<>>)
            IN  IF IsErr(l)
                    THEN l
                    ELSE IF Len(l[2][1]) # Len(nms)
                        THEN Panic("assertion failed: ar.len() == names.len()")
                        ELSE LET k == KeysNext(l[2][2])
                             IN  IF IsSome(k)
                                     THEN Err(ExtraNamedParameter(k[2]))
                                     ELSE ArityCheck(nms, l[2][1])
      [] ps[1] = "None" -> ArityCheck(nms, <<>>)

-----------------------------------------------------------------------------
(* jsonrpc_core::Error *)

Error(c, m, d) == [code |-> c, message |-> m, data |-> d]

invalid_request == Error(<<"InvalidRequest">>, <<"Invalid request">>, None)
method_not_found == Error(<<"MethodNotFound">>, <<"Method not found">>, None)
invalid_params(m) == Error(<<"InvalidParams">>, m, None)

\* variant of IntoError that reports a decode error as an internal error
IntoError_DecodeAsInternal(e) ==
    CASE e.kind = "WrongNumberOfArgs" ->
            invalid_params(<<"WrongNumberOfArgs. Expected ", e.expected, ". Actual ", e.actual>>)
      [] e.kind = "ExtraNamedParameter" ->
            invalid_params(<<"ExtraNamedParameter ", e.name>>)
      [] e.kind = "MissingNamedParameter" ->
            invalid_params(<<"MissingNamedParameter ", e.name>>)
      [] e.kind = "InvalidArgStructure" ->
            Error(<<"InternalError">>,
                  <<"InvalidArgStructure ", e.name, " at position ", e.index, ".">>, None)

\* impl Into<Error> for InvalidArgs; format! is kept as the list of its pieces
IntoError(e) ==
    CASE e.kind = "WrongNumberOfArgs" ->
            invalid_params(<<"WrongNumberOfArgs. Expected ", e.expected, ". Actual ", e.actual>>)
      [] e.kind = "ExtraNamedParameter" ->
            invalid_params(<<"ExtraNamedParameter ", e.name>>)
      [] e.kind = "MissingNamedParameter" ->
            invalid_params(<<"MissingNamedParameter ", e.name>>)
      [] e.kind = "InvalidArgStructure" ->
            invalid_params(<<"InvalidArgStructure ", e.name, " at position ", e.index, ".">>)

-----------------------------------------------------------------------------
(* Typed Rust values, their serde encoding and decoding *)

RUnit == <<"unit">>
RInt(n) == <<"int", n>>
RString(s) == <<"string", s>>
RVec(s) == <<"vec", s>>
RNone == <<"none">>
RSome(x) == <<"some", x>>
ROk(x) == <<"ok", x>>
RErr(x) == <<"err", x>>
RStruct(v) == <<"struct", v>>   \* a struct, kept as the JSON object it encodes to

\* variant of to_value that encodes a Result without its variant tag
RECURSIVE to_value_Untagged(_)
to_value_Untagged(t) ==
    CASE t[1] = "unit" -> Null
      [] t[1] = "int" -> Num(t[2])
      [] t[1] = "string" -> Str(t[2])
      [] t[1] = "vec" -> Arr([i \in DOMAIN t[2] |-> Num(t[2][i])])
      [] t[1] = "none" -> Null
      [] t[1] = "some" -> to_value_Untagged(t[2])
      [] t[1] = "struct" -> t[2]
      [] t[1] = "ok" -> to_value_Untagged(t[2])
      [] t[1] = "err" -> to_value_Untagged(t[2])

\* serde_json::to_value on the return types of the Adder procedures
RECURSIVE to_value(_)
to_value(t) ==
    CASE t[1] = "unit" -> Null
      [] t[1] = "int" -> Num(t[2])
      [] t[1] = "string" -> Str(t[2])
      [] t[1] = "vec" -> Arr([i \in DOMAIN t[2] |-> Num(t[2][i])])
      [] t[1] = "none" -> Null
      [] t[1] = "some" -> to_value(t[2])
      [] t[1] = "struct" -> t[2]
      [] t[1] = "ok" -> Obj([k \in {"Ok"} |-> to_value(t[2])])
      [] t[1] = "err" -> Obj([k \in {"Err"} |-> to_value(t[2])])

\* ErrorCode::ServerError(8), the one code of every application-level failure
ServerErrorCode == 8

\* variant of to_result that serializes a Result as it stands, variant tag included
to_result_TagKept(t) == Ok(to_value(t))

\* variant of to_result that leaves the failure payload out of the error
to_result_NoData(t) ==
    CASE t[1] = "ok" -> Ok(to_value(t[2]))
      [] t[1] = "err" ->
            Err(Error(<<"ServerError", ServerErrorCode>>, <<"Server error.">>, None))
      [] OTHER -> Ok(to_value(t))

\* ToRPCResult::to_result: the impl for Result<A, B> and the impl for the
\* types that are not a Result
to_result(t) ==
    CASE t[1] = "ok" -> Ok(to_value(t[2]))
      [] t[1] = "err" ->
            Err(Error(<<"ServerError", ServerErrorCode>>, <<"Server error.">>,
                      Some(to_value(t[2]))))
      [] OTHER -> Ok(to_value(t))

\* the JSON objects that stand for a well-formed Slate and BlockFees
SlateObj == Obj([k \in {"num_participants"} |-> Num(2)])
BlockFeesObj == Obj([k \in {"fees"} |-> Num(1)])

\* serde_json::from_value::<T> for the parameter types of the Adder procedures
\* and of the wallet's foreign API
from_value(typ, v) ==
    CASE typ = "isize" ->
            IF IsNum(v) THEN Ok(RInt(v[2])) ELSE Err("invalid type")
      [] typ = "Vec<usize>" ->
            IF IsArr(v) /\ \A i \in DOMAIN v[2] : IsNum(v[2][i]) /\ v[2][i][2] >= 0
                THEN Ok(RVec([i \in DOMAIN v[2] |-> v[2][i][2]]))
                ELSE Err("invalid type")
      [] typ = "Option<String>" ->
            IF v = Null THEN Ok(RNone)
            ELSE IF v[1] = "String" THEN Ok(RSome(RString(v[2])))
            ELSE Err("invalid type")
      [] typ = "()" ->
            IF v = Null THEN Ok(RUnit) ELSE Err("invalid type")
      [] typ = "String" ->
            IF v[1] = "String" THEN Ok(RString(v[2])) ELSE Err("invalid type")
      [] typ = "Option<isize>" ->
            IF v = Null THEN Ok(RNone)
            ELSE IF IsNum(v) THEN Ok(RSome(RInt(v[2])))
            ELSE Err("invalid type")
      [] typ = "Option<Option<isize>>" ->
            IF v = Null THEN Ok(RNone)
            ELSE IF IsNum(v) THEN Ok(RSome(RSome(RInt(v[2]))))
            ELSE Err("invalid type")
      [] typ = "Slate" ->
            IF v = SlateObj THEN Ok(RStruct(v)) ELSE Err("invalid type")
      [] typ = "BlockFees" ->
            IF v = BlockFeesObj THEN Ok(RStruct(v)) ELSE Err("invalid type")

-----------------------------------------------------------------------------
(* The Adder procedures and the registry built from them *)

\* impl Adder for AdderImpl; the operands of the model stay far from the
\* isize limits, where checked_add and wrapping_add are plain addition
AdderImpl(m, args) ==
    CASE m = "checked_add" -> RSome(RInt(args[1][2] + args[2][2]))
      [] m = "wrapping_add" -> RInt(args[1][2] + args[2][2])
      [] m = "greet" -> RString("hello")
      [] m = "swallow" -> RUnit
      [] m = "repeat_list" -> RVec(args[1][2] \o args[1][2])
      [] m = "fail" -> RErr(RString("tada!"))
      [] m = "succeed" -> ROk(RInt(1))

Entry(ns, ts) == [arg_names |-> ns, arg_types |-> ts]

\* trait Adder: the name and the (ident, type) list of every method
Registry ==
    [m \in {"checked_add", "wrapping_add", "greet", "swallow",
            "repeat_list", "fail", "succeed"} |->
        CASE m \in {"checked_add", "wrapping_add"} ->
                Entry(<<"a", "b">>, <<"isize", "isize">>)
          [] m = "repeat_list" -> Entry(<<"lst">>, <<"Vec<usize>">>)
          [] OTHER -> Entry(<<>>, <<>>)]

Ret(r, inv) == [result |-> r, invoked |-> inv]

\* drain_args: take and decode one argument per declared parameter, from
\* position i on; Ok(decoded arguments), the first decode error, or the panic
\* of `expect` when the argument list runs out
RECURSIVE DrainArgs(_, _, _, _)
DrainArgs(m, args, i, decoded) ==
    IF i > Len(Registry[m].arg_names)
        THEN Ok(decoded)
        ELSE IF i > Len(args)
            THEN Panic("RPC method Got too few args. This is a bug.")
            ELSE LET d == from_value(Registry[m].arg_types[i], args[i])
                 IN  IF IsErr(d)
                         THEN Err(InvalidArgStructure(Registry[m].arg_names[i], i - 1))
                         ELSE DrainArgs(m, args, i + 1, Append(decoded, d[2]))

\* the rest of the closure once the arguments are drained (d): call the
\* target procedure and serialize what it returns
\* variant of CallAndSerialize that calls the procedure before looking at
\* what the decoding gave
CallAndSerialize_CallsFirst(m, d) ==
    IF IsOk(d)
        THEN Ret(Ok(to_value(AdderImpl(m, d[2]))), <<m>>)
        ELSE Ret(d, <<m>>)

CallAndSerialize(m, d) ==
    IF IsOk(d)
        THEN Ret(Ok(to_value(AdderImpl(m, d[2]))), <<m>>)
        ELSE Ret(d, <<>>)

\* the closure add_handler generates for method m
handler(m, args) == CallAndSerialize(m, DrainArgs(m, args, 1, <<>>))

\* .map_err(std::convert::Into::into)
map_err_into(h) ==
    IF IsErr(h.result) THEN Ret(Err(IntoError(h.result[2])), h.invoked) ELSE h

\* .and_then(|args| cb(args)) on what get_rpc_args returned (b)
and_then_cb(m, b) == IF IsOk(b) THEN handler(m, b[2]) ELSE Ret(b, <<>>)

\* the closure add_rpc_method registers under name m
rpc_method(m, ps) ==
    map_err_into(and_then_cb(m, get_rpc_args(Registry[m].arg_names, ps)))

\* JSONRPCServer::handle: look the method up and run its closure
handle(method, ps) ==
    IF method \in DOMAIN Registry
        THEN rpc_method(method, ps)
        ELSE Ret(Err(method_not_found), <<>>)

-----------------------------------------------------------------------------
(* The hand-written handlers of the wallet's foreign API (jsonrpcapi) *)

\* InvalidArgs::WrongNumberOfArgs of jsonrpcapi, which carries no counts
ApiWrongNumberOfArgs == [kind |-> "WrongNumberOfArgs"]

\* InvalidArgs::ExtraNamedParameter of jsonrpcapi, which carries no name
ApiExtraNamedParameter == [kind |-> "ExtraNamedParameter"]

\* the `for name in names.iter()` loop of jsonrpcapi's Map arm, from position
\* i on: ma.get(name) leaves the map as it is
RECURSIVE ApiNamedLoop(_, _, _, _)
ApiNamedLoop(nms, i, ma, ar) ==
    IF i > Len(nms)
        THEN Ok(ar)
        ELSE IF nms[i] \in DOMAIN ma
            THEN ApiNamedLoop(nms, i + 1, ma, Append(ar, ma[nms[i]]))
            ELSE Err(MissingNamedParameter(nms[i]))

\* the final arity check of jsonrpcapi's get_rpc_args, on what the match gave
ApiArityCheck(nms, r) ==
    IF IsErr(r)
        THEN r
        ELSE IF Len(r[2]) # Len(nms) THEN Err(ApiWrongNumberOfArgs) ELSE r

\* variant of api_get_rpc_args without the size check of the Map arm
api_get_rpc_args_NoSizeCheck(nms, ps) ==
    CASE ps[1] = "Array" -> ApiArityCheck(nms, Ok(ps[2]))
      [] ps[1] = "Map" -> ApiArityCheck(nms, ApiNamedLoop(nms, 1, ps[2], <<>>))
      [] ps[1] = "None" -> ApiArityCheck(nms, Ok(<<>>))

\* get_rpc_args of jsonrpcapi
api_get_rpc_args(nms, ps) ==
    CASE ps[1] = "Array" -> ApiArityCheck(nms, Ok(ps[2]))
      [] ps[1] = "Map" ->
            IF Cardinality(DOMAIN ps[2]) > Len(nms)
                THEN Err(ApiExtraNamedParameter)
                ELSE ApiArityCheck(nms, ApiNamedLoop(nms, 1, ps[2], <<>>))
      [] ps[1] = "None" -> ApiArityCheck(nms, Ok(<<>>))

ApiEntry(ns, ts, lits) == [arg_names |-> ns, arg_types |-> ts, literals |-> lits]

\* per method: the names declared to add_rpc_method, the types the closure
\* decodes to, and the name literals the closure puts in InvalidArgStructure
ApiRegistry ==
    [m \in {"build_coinbase", "verify_slate_messages", "receive_tx"} |->
        CASE m = "build_coinbase" ->
                ApiEntry(<<"block_fees">>, <<"BlockFees">>, <<"block_fees">>)
          [] m = "verify_slate_messages" ->
                ApiEntry(<<"slate">>, <<"Slate">>, <<"slate">>)
          [] m = "receive_tx" ->
                ApiEntry(<<"slate", "dest_acct_name", "message">>,
                         <<"Slate", "Option<String>", "Option<String>">>,
                         <<"slate", "dest_acc_name", "message">>)]

\* what the wallet answers: ok tells whether the API call succeeded;
\* a failure is mapped to the unit struct InternalError
ApiForeign(m, args, ok) ==
    IF ~ok THEN RErr(RUnit)
    ELSE IF m = "build_coinbase"
        THEN ROk(RStruct(Obj([k \in {"output", "kernel", "key_id"} |-> Null])))
        ELSE ROk(RUnit)

\* the argument-parsing prefix of a closure, from position i on
RECURSIVE ApiDrainArgs(_, _, _, _)

\* one position: d is what from_value gave for args[i]
ApiDrainStep(m, args, i, decoded, d) ==
    IF IsErr(d)
        THEN Err(InvalidArgStructure(ApiRegistry[m].literals[i], i - 1))
        ELSE ApiDrainArgs(m, args, i + 1, Append(decoded, d[2]))

ApiDrainArgs(m, args, i, decoded) ==
    IF i > Len(ApiRegistry[m].arg_types)
        THEN Ok(decoded)
        ELSE IF i > Len(args)
            THEN Err(ApiWrongNumberOfArgs)
            ELSE ApiDrainStep(m, args, i, decoded,
                              from_value(ApiRegistry[m].arg_types[i], args[i]))

\* the rest of the closure once the arguments are parsed (d)
ApiCallAndSerialize(m, d, ok) ==
    IF IsOk(d)
        THEN Ret(Ok(to_value(ApiForeign(m, d[2], ok))), <<m>>)
        ELSE Ret(d, <<>>)

\* the closure handed to add_rpc_method for method m of the foreign API
api_handler(m, args, ok) == ApiCallAndSerialize(m, ApiDrainArgs(m, args, 1, <<>>), ok)

-----------------------------------------------------------------------------
(* Calls, outputs, requests, responses *)

V2 == Some("2.0")

Notification(v, m, ps) == [kind |-> "Notification", jsonrpc |-> v, method |-> m, params |-> ps]
MethodCall(v, m, ps, id) ==
    [kind |-> "MethodCall", jsonrpc |-> v, method |-> m, params |-> ps, id |-> id]
Invalid(id) == [kind |-> "Invalid", id |-> id]

Success(v, r, id) == [kind |-> "Success", jsonrpc |-> v, result |-> r, id |-> id]
Failure(v, e, id) == [kind |-> "Failure", jsonrpc |-> v, error |-> e, id |-> id]

Single(x) == <<"Single", x>>
Batch(xs) == <<"Batch", xs>>

IdNull == <<"Null">>
IdNum(n) == <<"Num", n>>

\* the MethodCall arm, h being what self.handle returned
MethodCallOutput(c, h) ==
    IF IsOk(h.result)
        THEN Ret(Some(Success(c.jsonrpc, h.result[2], c.id)), h.invoked)
        ELSE IF IsErr(h.result)
            THEN Ret(Some(Failure(c.jsonrpc, h.result[2], c.id)), h.invoked)
            ELSE h

MethodCallOutputDropsId(c, h) ==
    IF IsOk(h.result)
        THEN Ret(Some(Success(c.jsonrpc, h.result[2], c.id)), h.invoked)
        ELSE IF IsErr(h.result)
            THEN Ret(Some(Failure(c.jsonrpc, h.result[2], IdNull)), h.invoked)
            ELSE h

NotificationOutputReplies(c, h) ==
    IF IsErr(h.result)
        THEN Ret(Some(Failure(c.jsonrpc, h.result[2], IdNull)), h.invoked)
        ELSE Ret(None, h.invoked)

\* variant of handle_call that answers a notification whose dispatch failed
handle_call_NotificationReplies(c) ==
    CASE c.kind = "Notification" ->
            NotificationOutputReplies(c, handle(c.method, c.params))
      [] c.kind = "MethodCall" -> MethodCallOutput(c, handle(c.method, c.params))
      [] c.kind = "Invalid" ->
            Ret(Some(Failure(V2, invalid_request, c.id)), <<>>)

\* variant of handle_call whose failure output does not echo the id
handle_call_FailureDropsId(c) ==
    CASE c.kind = "Notification" ->
            Ret(None, handle(c.method, c.params).invoked)
      [] c.kind = "MethodCall" -> MethodCallOutputDropsId(c, handle(c.method, c.params))
      [] c.kind = "Invalid" ->
            Ret(Some(Failure(V2, invalid_request, c.id)), <<>>)

\* variant of handle_call that dispatches an Invalid call like a MethodCall
\* to an unknown method, answering under a null id
handle_call_InvalidDispatched(c) ==
    CASE c.kind = "Notification" ->
            Ret(None, handle(c.method, c.params).invoked)
      [] c.kind = "MethodCall" -> MethodCallOutput(c, handle(c.method, c.params))
      [] c.kind = "Invalid" ->
            Ret(Some(Failure(V2, method_not_found, IdNull)),
                handle("", ParamsNone).invoked)

handle_call(c) ==
    CASE c.kind = "Notification" ->
            Ret(None, handle(c.method, c.params).invoked)
      [] c.kind = "MethodCall" -> MethodCallOutput(c, handle(c.method, c.params))
      [] c.kind = "Invalid" ->
            Ret(Some(Failure(V2, invalid_request, c.id)), <<>>)

\* calls.drain(..).filter_map(|call| self.handle_call(call)).collect(), from
\* position i on: Ok(the outputs collected) and the procedures invoked
RECURSIVE FilterMap(_, _, _, _)

\* one element of the filter_map: h is what handle_call returned for calls[i]
\* variant of FilterMapStep that collects the outputs in reverse order
FilterMapStep_Prepends(calls, i, outputs, inv, h) ==
    IF IsPanic(h.result)
        THEN Ret(h.result, inv \o h.invoked)
        ELSE FilterMap(calls, i + 1,
                       IF IsSome(h.result) THEN <<h.result[2]>> \o outputs ELSE outputs,
                       inv \o h.invoked)

\* variant of FilterMapStep that stops the batch at the first failing call
FilterMapStep_StopsAtFailure(calls, i, outputs, inv, h) ==
    IF IsPanic(h.result)
        THEN Ret(h.result, inv \o h.invoked)
        ELSE IF IsSome(h.result) /\ h.result[2].kind = "Failure"
            THEN Ret(Ok(Append(outputs, h.result[2])), inv \o h.invoked)
            ELSE FilterMap(calls, i + 1,
                           IF IsSome(h.result) THEN Append(outputs, h.result[2])
                                               ELSE outputs,
                           inv \o h.invoked)

FilterMapStep(calls, i, outputs, inv, h) ==
    IF IsPanic(h.result)
        THEN Ret(h.result, inv \o h.invoked)
        ELSE FilterMap(calls, i + 1,
                       IF IsSome(h.result) THEN Append(outputs, h.result[2]) ELSE outputs,
                       inv \o h.invoked)

FilterMap(calls, i, outputs, inv) ==
    IF i > Len(calls)
        THEN Ret(Ok(outputs), inv)
        ELSE FilterMapStep(calls, i, outputs, inv, handle_call(calls[i]))

\* .map(Response::Single) on what handle_call returned (h)
MapResponseSingle(h) ==
    IF IsSome(h.result) THEN Ret(Some(Single(h.result[2])), h.invoked) ELSE h

\* the Batch arm after the collect, f being the outputs collected
\* variant of BatchResponse that answers an empty collection with an empty batch
BatchResponse_EmptyBatch(f) ==
    IF IsPanic(f.result)
        THEN f
        ELSE Ret(Some(Batch(f.result[2])), f.invoked)

\* variant of BatchResponse that answers a batch with one output by a
\* single response
BatchResponse_SingleWhenOne(f) ==
    IF IsPanic(f.result)
        THEN f
        ELSE IF f.result[2] = <<>>
            THEN Ret(None, f.invoked)
            ELSE IF Len(f.result[2]) = 1
                THEN Ret(Some(Single(f.result[2][1])), f.invoked)
                ELSE Ret(Some(Batch(f.result[2])), f.invoked)

BatchResponse(f) ==
    IF IsPanic(f.result)
        THEN f
        ELSE IF f.result[2] = <<>>
            THEN Ret(None, f.invoked)
            ELSE Ret(Some(Batch(f.result[2])), f.invoked)

handle_parsed(req) ==
    CASE req[1] = "Single" -> MapResponseSingle(handle_call(req[2]))
      [] req[1] = "Batch" -> BatchResponse(FilterMap(req[2], 1, <<>>, <<>>))

\* a raw input: the JSON text of a Request, or a text that is not one
RequestText(req) == <<"request text", req>>
OtherText(t) == <<"other text", t>>

\* serde_json::from_str::<Request>
from_str(raw) ==
    IF raw[1] = "request text" THEN Ok(raw[2]) ELSE Err(<<"serde_json::Error">>)

\* serde_json::to_string of a Response
to_string(resp) == <<"response text", resp>>

\* Result::unwrap_or
unwrap_or(r, default) == IF IsOk(r) THEN r[2] ELSE default

\* .map(|response| serde_json::to_string(&response).expect(..)) on what
\* handle_parsed returned (h)
MapToString(h) ==
    IF IsSome(h.result) THEN Ret(Some(to_string(h.result[2])), h.invoked) ELSE h

\* variant of handle_raw that gives no response to a text it cannot parse
handle_raw_SilentOnParseError(raw) ==
    IF IsOk(from_str(raw))
        THEN MapToString(handle_parsed(from_str(raw)[2]))
        ELSE Ret(None, <<>>)

handle_raw(raw) ==
    MapToString(handle_parsed(unwrap_or(from_str(raw), Single(Invalid(IdNull)))))

-----------------------------------------------------------------------------
(* Specification of the binder: draw an input, bind it *)

ServerIdle ==
    /\ op = "idle"
    /\ call = Idle
    /\ output = Idle
    /\ invoked = <<>>
    /\ request = Idle
    /\ response = Idle

BindIdle ==
    /\ names = <<>>
    /\ params = ParamsNone
    /\ bound = Pending

EncodeIdle ==
    /\ ret = Idle
    /\ encoded = Pending

DecodeIdle ==
    /\ hmethod = ""
    /\ hargs = <<>>
    /\ hresult = Pending

RegisterIdle ==
    /\ registry = <<>>
    /\ registrations = <<>>
    /\ callers = <<>>

InitBind ==
    /\ names \in DeclaredNames
    /\ params \in ParamPayloads
    /\ key_order \in KeyOrders
    /\ bound = Pending
    /\ ServerIdle
    /\ EncodeIdle
    /\ DecodeIdle
    /\ RegisterIdle

Bind ==
    /\ op = "idle"
    /\ op' = "get_rpc_args"
    /\ bound' = get_rpc_args(names, params)
    /\ UNCHANGED <<names, params, key_order, serverVars, encodeVars, decodeVars, registerVars>>

\* bind the input with the copy of get_rpc_args that jsonrpcapi keeps
ApiBind ==
    /\ op = "idle"
    /\ op' = "api_get_rpc_args"
    /\ bound' = api_get_rpc_args(names, params)
    /\ UNCHANGED <<names, params, key_order, serverVars, encodeVars, decodeVars, registerVars>>

NextBind == Bind \/ ApiBind

SpecBind == InitBind /\ [][NextBind]_vars

-----------------------------------------------------------------------------
(* Specification of the server: from the idle state, handle one input *)

Methods == DOMAIN Registry \cup {"nonexist"}
Ids == {IdNull, IdNum(1), IdNum(2)}
Versions == {None, V2}

Calls ==
    {Notification(v, m, ps) : v \in Versions, m \in Methods, ps \in ParamPayloads}
    \cup {MethodCall(v, m, ps, id) :
            v \in Versions, m \in Methods, ps \in ParamPayloads, id \in Ids}
    \cup {Invalid(id) : id \in Ids}

\* the calls batches are drawn from
BatchCalls ==
    { MethodCall(V2, "wrapping_add", ParamsArray(<<Num(1), Num(1)>>), IdNum(1)),
      MethodCall(V2, "wrapping_add", ParamsMap([k \in {"notanarg"} |-> Num(1)]), IdNum(2)),
      MethodCall(V2, "nonexist", ParamsArray(<<>>), IdNum(2)),
      MethodCall(V2, "fail", ParamsNone, IdNull),
      Notification(V2, "succeed", ParamsArray(<<>>)),
      Notification(V2, "nonexist", ParamsNone),
      Invalid(IdNum(1)) }

Requests ==
    {Single(c) : c \in Calls} \cup {Batch(cs) : cs \in SeqsUpTo(BatchCalls, MaxBatch)}

Init ==
    /\ BindIdle
    /\ key_order \in KeyOrders
    /\ ServerIdle
    /\ EncodeIdle
    /\ DecodeIdle
    /\ RegisterIdle

HandleCall ==
    /\ op = "idle"
    /\ op' = "handle_call"
    /\ \E c \in Calls :
        LET h == handle_call(c)
        IN  /\ call' = c
            /\ output' = h.result
            /\ invoked' = h.invoked
    /\ UNCHANGED <<bindVars, key_order, request, response>>
    /\ UNCHANGED <<encodeVars, decodeVars, registerVars>>

HandleParsed ==
    /\ op = "idle"
    /\ op' = "handle_parsed"
    /\ \E req \in Requests :
        LET h == handle_parsed(req)
        IN  /\ request' = req
            /\ response' = h.result
            /\ invoked' = h.invoked
    /\ UNCHANGED <<bindVars, key_order, call, output>>
    /\ UNCHANGED <<encodeVars, decodeVars, registerVars>>

\* texts that do not parse as a Request
OtherTexts == {OtherText(""), OtherText("{"), OtherText("[1, 2]"), OtherText("7")}

RawInputs == {RequestText(req) : req \in Requests} \cup OtherTexts

HandleRaw ==
    /\ op = "idle"
    /\ op' = "handle_raw"
    /\ \E raw \in RawInputs :
        LET h == handle_raw(raw)
        IN  /\ request' = raw
            /\ response' = h.result
            /\ invoked' = h.invoked
    /\ UNCHANGED <<bindVars, key_order, call, output>>
    /\ UNCHANGED <<encodeVars, decodeVars, registerVars>>

Next == HandleCall \/ HandleParsed \/ HandleRaw

Spec == Init /\ [][Next]_vars

-----------------------------------------------------------------------------
(* Properties of the binder, checked under SpecBind *)

Bound == op = "get_rpc_args"
IsPositional == params[1] = "Array"
IsNamed == params[1] = "Map"

Min(S) == CHOOSE x \in S : \A y \in S : x <= y

\* positions of the declared names the named payload does not hold
MissingPositions == {i \in DOMAIN names : names[i] \notin DOMAIN params[2]}

\* keys of the named payload that are not declared names
ExtraKeysOfPayload == DOMAIN params[2] \ Range(names)

\* the values of a named payload listed in declared order
InDeclaredOrder == [i \in DOMAIN names |-> params[2][names[i]]]

\* C1: a positional payload whose length differs from the number of declared
\* names fails with WrongNumberOfArgs, `expected` being the number of declared
\* names and `actual` the number of values in the payload.
C1_WrongNumberOfArgsTrueCounts ==
    (Bound /\ IsPositional /\ Len(params[2]) # Len(names))
        => bound = Err(WrongNumberOfArgs(Len(names), Len(params[2])))

\* C2: a positional payload with as many values as there are declared names
\* binds to exactly those values, in the same order.
C2_PositionalMatchUnchanged ==
    (Bound /\ IsPositional /\ Len(params[2]) = Len(names))
        => bound = Ok(params[2])

C2_Witness ==
    /\ Bound /\ IsPositional
    /\ Len(names) = 2 /\ Len(params[2]) = 2
    /\ params[2][1] # params[2][2]
    /\ bound = Ok(params[2])

\* C3: a named payload lacking a declared name fails with
\* MissingNamedParameter for the first absent name in declared order, also
\* when the payload holds undeclared keys.
C3_FirstMissingReported ==
    (Bound /\ IsNamed /\ MissingPositions # {})
        => bound = Err(MissingNamedParameter(names[Min(MissingPositions)]))

C3_Witness ==
    /\ Bound /\ IsNamed
    /\ MissingPositions = {2}
    /\ ExtraKeysOfPayload # {}
    /\ bound = Err(MissingNamedParameter(names[2]))

\* C4: a named payload holding every declared name and at least one further
\* key fails with ExtraNamedParameter naming a key of the payload that is not
\* a declared name.
C4_ExtraReported ==
    (Bound /\ IsNamed /\ MissingPositions = {} /\ ExtraKeysOfPayload # {})
        => /\ IsErr(bound)
           /\ bound[2].kind = "ExtraNamedParameter"
           /\ bound[2].name \in ExtraKeysOfPayload

C4_Witness ==
    /\ Bound /\ IsNamed
    /\ names # <<>>
    /\ MissingPositions = {}
    /\ Cardinality(ExtraKeysOfPayload) >= 2
    /\ IsErr(bound)
    /\ bound[2].kind = "ExtraNamedParameter"
    /\ key_order[1] \in Range(names)

\* C5: an absent payload binds exactly as the empty positional payload does:
\* to the empty list when no names are declared, to the same
\* WrongNumberOfArgs error otherwise.
C5_AbsentAsEmptyPositional ==
    (Bound /\ params = ParamsNone)
        => /\ bound = get_rpc_args(names, ParamsArray(<<>>))
           /\ names = <<>> => bound = Ok(<<>>)
           /\ names # <<>> => IsErr(bound) /\ bound[2].kind = "WrongNumberOfArgs"

C5_Witness ==
    /\ Bound /\ params = ParamsNone
    /\ names # <<>>
    /\ IsErr(bound)
    /\ bound[2].kind = "WrongNumberOfArgs"

\* C6: a successful binding has one value per declared name, in declared
\* order; a named payload whose keys are exactly the declared names binds to
\* what the positional payload of its values in declared order binds to, and
\* a call made either way gives the same output.
C6_SuccessInDeclaredOrder ==
    /\ (Bound /\ IsOk(bound)) => Len(bound[2]) = Len(names)
    /\ (Bound /\ IsNamed /\ IsOk(bound))
            => \A i \in DOMAIN names : bound[2][i] = params[2][names[i]]
    /\ (Bound /\ IsNamed /\ DOMAIN params[2] = Range(names))
            => /\ IsOk(bound)
               /\ bound = get_rpc_args(names, ParamsArray(InDeclaredOrder))
               /\ \A m \in DOMAIN Registry : \A id \in Ids :
                    Registry[m].arg_names = names
                        => handle_call(MethodCall(V2, m, params, id))
                            = handle_call(MethodCall(V2, m, ParamsArray(InDeclaredOrder), id))

C6_Witness ==
    /\ Bound /\ IsNamed
    /\ names = <<"a", "b">>
    /\ IsOk(bound)
    /\ bound[2] = <<params[2]["a"], params[2]["b"]>>
    /\ params[2]["a"] # params[2]["b"]

EmptyPayload ==
    \/ params = ParamsNone
    \/ IsPositional /\ params[2] = <<>>
    \/ IsNamed /\ DOMAIN params[2] = {}

\* C7: with no declared names, the absent, the empty positional and the empty
\* named payload bind to the empty list and give the same call output; every
\* non-empty positional payload fails with WrongNumberOfArgs and every
\* non-empty named payload with ExtraNamedParameter, so does the call.
C7_ZeroDeclaredNames ==
    (Bound /\ names = <<>>)
        => /\ EmptyPayload => bound = Ok(<<>>)
           /\ (IsPositional /\ params[2] # <<>>)
                => IsErr(bound) /\ bound[2].kind = "WrongNumberOfArgs"
           /\ (IsNamed /\ DOMAIN params[2] # {})
                => IsErr(bound) /\ bound[2].kind = "ExtraNamedParameter"
           /\ \A m \in DOMAIN Registry : \A id \in Ids :
                Registry[m].arg_names = <<>>
                    => LET h == handle_call(MethodCall(V2, m, params, id))
                       IN  IF EmptyPayload
                               THEN /\ h = handle_call(MethodCall(V2, m, ParamsNone, id))
                                    /\ h.result[2].kind = "Success"
                                    /\ h.invoked = <<m>>
                               ELSE /\ h.result = Some(Failure(V2, IntoError(bound[2]), id))
                                    /\ h.invoked = <<>>

C7_Witness ==
    /\ Bound /\ names = <<>>
    /\ IsNamed
    /\ Cardinality(DOMAIN params[2]) >= 2
    /\ IsErr(bound)
    /\ bound[2].kind = "ExtraNamedParameter"

-----------------------------------------------------------------------------
(* Properties of the request engine, checked under Spec *)

CallHandled == op = "handle_call"
ParsedHandled == op = "handle_parsed"

\* C8: handle_call on a Notification returns no Output, whatever the dispatch
\* outcome, and a Request::Single holding a Notification yields no Response.
C8_NotificationNoOutput ==
    /\ (CallHandled /\ call.kind = "Notification") => output = None
    /\ (ParsedHandled /\ request[1] = "Single" /\ request[2].kind = "Notification")
            => response = None

\* a notification whose procedure ran
C8_Witness ==
    /\ CallHandled
    /\ call.kind = "Notification"
    /\ call.method = "wrapping_add"
    /\ invoked = <<"wrapping_add">>
    /\ output = None

\* C9: handle_call on a MethodCall returns exactly one Output carrying the
\* request's id: Success with the value dispatch returned, or Failure with
\* the error dispatch returned.
C9_MethodCallOneOutputSameId ==
    /\ (CallHandled /\ call.kind = "MethodCall")
            => LET h == handle(call.method, call.params)
               IN  /\ IsSome(output)
                   /\ output[2].id = call.id
                   /\ IsOk(h.result) \/ IsErr(h.result)
                   /\ IsOk(h.result)
                        => output[2] = Success(call.jsonrpc, h.result[2], call.id)
                   /\ IsErr(h.result)
                        => output[2] = Failure(call.jsonrpc, h.result[2], call.id)
    /\ (ParsedHandled /\ request[1] = "Single" /\ request[2].kind = "MethodCall")
            => /\ IsSome(response)
               /\ response[2][1] = "Single"
               /\ response[2][2].id = request[2].id

C9_Witness ==
    /\ CallHandled
    /\ call.kind = "MethodCall"
    /\ call.id = IdNum(2)
    /\ IsSome(output)
    /\ output[2].kind = "Failure"
    /\ output[2].id = IdNum(2)

\* the typed arguments a call's payload decodes to, when it binds and decodes
DecodedArgs(c) ==
    LET b == get_rpc_args(Registry[c.method].arg_names, c.params)
    IN  IF IsOk(b) THEN DrainArgs(c.method, b[2], 1, <<>>) ELSE b

\* the call reaches a procedure that returns the failure variant of a Result
ReturnsFailureVariant(c) ==
    /\ c.method \in DOMAIN Registry
    /\ IsOk(DecodedArgs(c))
    /\ AdderImpl(c.method, DecodedArgs(c)[2])[1] = "err"

\* what the procedure returns to the call, when its payload binds and decodes
ReturnValueOf(c) == AdderImpl(c.method, DecodedArgs(c)[2])

\* the call reaches a procedure whose return type is a Result
ReturnsResult(c) ==
    /\ c.method \in DOMAIN Registry
    /\ IsOk(DecodedArgs(c))
    /\ ReturnValueOf(c)[1] \in {"ok", "err"}

C12_InvalidCallAnswered ==
    (CallHandled /\ call.kind = "Invalid")
        => /\ output = Some(Failure(V2, invalid_request, call.id))
           /\ output[2].error.code = <<"InvalidRequest">>
           /\ invoked = <<>>

C12_Witness ==
    /\ CallHandled
    /\ call = Invalid(IdNum(2))
    /\ output = Some(Failure(V2, invalid_request, IdNum(2)))

RawHandled == op = "handle_raw"

\* C13: for every raw input that fails to parse as a Request, handle_raw
\* returns Some response: the text of a single Output::Failure with the
\* InvalidRequest error and id null.
C13_UnparseableAnswered ==
    (RawHandled /\ IsErr(from_str(request)))
        => /\ response = Some(to_string(Single(Failure(V2, invalid_request, IdNull))))
           /\ response[2][2][2].error.code = <<"InvalidRequest">>
           /\ invoked = <<>>

C13_Witness ==
    /\ RawHandled
    /\ request = OtherText("[1, 2]")
    /\ response = Some(to_string(Single(Failure(V2, invalid_request, IdNull))))

\* the ids of the calls that are not notifications, in input order
RECURSIVE NonNotificationIds(_)
NonNotificationIds(calls) ==
    IF Len(calls) = 0
        THEN <<>>
        ELSE (IF Head(calls).kind = "Notification" THEN <<>> ELSE <<Head(calls).id>>)
                \o NonNotificationIds(Tail(calls))

\* the outputs a response carries: none when there is no response
ResponseOutputs(resp) ==
    IF ~IsSome(resp) THEN <<>>
    ELSE IF resp[2][1] = "Batch" THEN resp[2][2] ELSE <<resp[2][2]>>

OutputIds(outs) == [j \in DOMAIN outs |-> outs[j].id]

BatchParsed == ParsedHandled /\ request[1] = "Batch"

\* C14: the outputs of a Batch carry, in input order, the ids of its calls
\* that are not notifications (MethodCall and Invalid), one output per call.
C14_BatchOutputOrder ==
    BatchParsed => OutputIds(ResponseOutputs(response)) = NonNotificationIds(request[2])

C14_Witness ==
    /\ ParsedHandled
    /\ request = Batch(<<MethodCall(V2, "wrapping_add", ParamsArray(<<Num(1), Num(1)>>),
                                    IdNum(1)),
                         Notification(V2, "succeed", ParamsArray(<<>>)),
                         MethodCall(V2, "nonexist", ParamsArray(<<>>), IdNum(2))>>)
    /\ response = Some(Batch(<<Success(V2, Num(2), IdNum(1)),
                               Failure(V2, method_not_found, IdNum(2))>>))

\* the Request a raw input parses to is a Batch
BatchRaw ==
    /\ RawHandled
    /\ IsOk(from_str(request))
    /\ from_str(request)[2][1] = "Batch"

\* C15: a Batch that is empty or holds only notifications gives None from
\* handle_parsed (never an empty Response::Batch) and None from handle_raw;
\* a Batch with at least one MethodCall or Invalid gives a non-empty
\* Response::Batch.
C15_EmptyBatchNoResponse ==
    /\ BatchParsed =>
         IF Len(NonNotificationIds(request[2])) = 0
            THEN response = None
            ELSE /\ IsSome(response)
                 /\ response[2][1] = "Batch"
                 /\ Len(response[2][2]) >= 1
    /\ BatchRaw =>
         IF Len(NonNotificationIds(from_str(request)[2][2])) = 0
            THEN response = None
            ELSE /\ IsSome(response)
                 /\ response[2][2][1] = "Batch"
                 /\ Len(response[2][2][2]) >= 1

C15_Witness ==
    /\ RawHandled
    /\ request = RequestText(Batch(<<Notification(V2, "succeed", ParamsArray(<<>>)),
                                     Notification(V2, "nonexist", ParamsNone)>>))
    /\ response = None
    /\ invoked = <<"succeed">>

\* what handle_call gives for each call of a batch handled on its own: the
\* outputs of the calls that have one, and the procedures invoked
RECURSIVE AloneOutputs(_)
AloneOutputs(calls) ==
    IF Len(calls) = 0
        THEN <<>>
        ELSE (IF IsSome(handle_call(Head(calls)).result)
                THEN <<handle_call(Head(calls)).result[2]>>
                ELSE <<>>)
             \o AloneOutputs(Tail(calls))

RECURSIVE AloneInvoked(_)
AloneInvoked(calls) ==
    IF Len(calls) = 0
        THEN <<>>
        ELSE handle_call(Head(calls)).invoked \o AloneInvoked(Tail(calls))

\* C16: in a Batch a failing call neither aborts nor changes its siblings:
\* every call is handled, and each output equals what handle_call gives
\* for that call alone.
C16_BatchCallsIndependent ==
    BatchParsed =>
        /\ ResponseOutputs(response) = AloneOutputs(request[2])
        /\ invoked = AloneInvoked(request[2])

C16_Witness ==
    /\ ParsedHandled
    /\ request = Batch(<<MethodCall(V2, "wrapping_add",
                                    ParamsMap([k \in {"notanarg"} |-> Num(1)]), IdNum(2)),
                         Invalid(IdNum(1)),
                         MethodCall(V2, "wrapping_add", ParamsArray(<<Num(1), Num(1)>>),
                                    IdNum(1))>>)
    /\ IsSome(response)
    /\ Len(response[2][2]) = 3
    /\ response[2][2][1].kind = "Failure"
    /\ response[2][2][2] = Failure(V2, invalid_request, IdNum(1))
    /\ response[2][2][3] = Success(V2, Num(2), IdNum(1))
    /\ invoked = <<"wrapping_add">>

InvalidArgsKinds ==
    {"WrongNumberOfArgs", "ExtraNamedParameter", "MissingNamedParameter",
     "InvalidArgStructure"}

\* the call names a registered method and its payload fails to bind or decode
BindingOrDecodeError(c) ==
    /\ c.method \in DOMAIN Registry
    /\ IsErr(DecodedArgs(c))

\* C17: a MethodCall to an unregistered method yields a Failure with code
\* MethodNotFound; every binding or decode error (WrongNumberOfArgs,
\* ExtraNamedParameter, MissingNamedParameter, InvalidArgStructure) yields a
\* Failure with code InvalidParams, and none is reported under another code.
C17_ErrorCodeSelection ==
    (CallHandled /\ call.kind = "MethodCall")
        => /\ call.method \notin DOMAIN Registry
                => /\ IsSome(output)
                   /\ output[2].kind = "Failure"
                   /\ output[2].error.code = <<"MethodNotFound">>
           /\ BindingOrDecodeError(call)
                => /\ DecodedArgs(call)[2].kind \in InvalidArgsKinds
                   /\ IsSome(output)
                   /\ output[2].kind = "Failure"
                   /\ output[2].error.code = <<"InvalidParams">>
                   /\ output[2].error = IntoError(DecodedArgs(call)[2])

C17_Witness ==
    /\ CallHandled
    /\ call = MethodCall(V2, "wrapping_add", ParamsArray(<<Arr(<<>>), Arr(<<>>)>>), IdNum(1))
    /\ DecodedArgs(call) = Err(InvalidArgStructure("a", 0))
    /\ output[2].kind = "Failure"
    /\ output[2].error.code = <<"InvalidParams">>

\* the call names a registered method and its payload binds and decodes
Dispatchable(c) ==
    /\ c.method \in DOMAIN Registry
    /\ IsOk(DecodedArgs(c))

\* the MethodCall that carries the method and params of a Notification
AsMethodCall(c) == MethodCall(c.jsonrpc, c.method, c.params, IdNum(1))

\* C23: the procedure body is invoked exactly once for a MethodCall or
\* Notification whose method is registered and whose params bind and
\* decode, and not at all for an unknown method, a binding error, a decode
\* error or Call::Invalid; a Notification invokes the procedure exactly as
\* the equivalent MethodCall does.
C23_InvocationCount ==
    CallHandled
        => /\ call.kind = "Invalid" => invoked = <<>>
           /\ call.kind # "Invalid"
                => /\ Dispatchable(call) => invoked = <<call.method>>
                   /\ ~Dispatchable(call) => invoked = <<>>
           /\ call.kind = "Notification"
                => invoked = handle_call(AsMethodCall(call)).invoked

C23_Witness ==
    /\ CallHandled
    /\ call = Notification(V2, "wrapping_add", ParamsArray(<<Num(1), Num(1)>>))
    /\ output = None
    /\ invoked = <<"wrapping_add">>

\* what get_rpc_args gives the closure of the call's method
BoundArgs(c) == get_rpc_args(Registry[c.method].arg_names, c.params)

\* the call reaches the closure registered for its method
ReachesClosure(c) == c.kind # "Invalid" /\ c.method \in DOMAIN Registry

\* C24: the generated handler's expect("RPC method Got too few args. This
\* is a bug.") is unreachable: the closure runs only on an argument list as
\* long as its list of declared names, so draining one argument per
\* declared parameter neither runs out nor leaves one over; and the
\* debug_assert of get_rpc_args holds.
C24_TooFewArgsUnreachable ==
    (CallHandled /\ ReachesClosure(call))
        => /\ ~IsPanic(BoundArgs(call))
           /\ IsOk(BoundArgs(call))
                => /\ Len(BoundArgs(call)[2]) = Len(Registry[call.method].arg_names)
                   /\ ~IsPanic(handler(call.method, BoundArgs(call)[2]).result)
           /\ ~IsPanic(handle(call.method, call.params).result)
           /\ call.kind = "MethodCall" => IsSome(output)

C24_Witness ==
    /\ CallHandled
    /\ call = MethodCall(V2, "wrapping_add",
                         ParamsMap([k \in {"a", "b"} |-> Num(1)]), IdNum(2))
    /\ BoundArgs(call) = Ok(<<Num(1), Num(1)>>)
    /\ output = Some(Success(V2, Num(2), IdNum(2)))
    /\ invoked = <<"wrapping_add">>

\* C25: handle_parsed answers Request::Single with None or a
\* Response::Single, never a Response::Batch, and Request::Batch with None
\* or a non-empty Response::Batch, never a Response::Single, also when
\* exactly one call of the batch is not a notification.
C25_ResponseShapeMirrorsRequest ==
    ParsedHandled
        => /\ request[1] = "Single"
                => response = None \/ (IsSome(response) /\ response[2][1] = "Single")
           /\ request[1] = "Batch"
                => \/ response = None
                   \/ /\ IsSome(response)
                      /\ response[2][1] = "Batch"
                      /\ Len(response[2][2]) = Len(NonNotificationIds(request[2]))
                      /\ Len(response[2][2]) >= 1

C25_Witness ==
    /\ ParsedHandled
    /\ request = Batch(<<Notification(V2, "succeed", ParamsArray(<<>>)),
                         MethodCall(V2, "nonexist", ParamsArray(<<>>), IdNum(2))>>)
    /\ response = Some(Batch(<<Failure(V2, method_not_found, IdNum(2))>>))

ApiBound == op = "api_get_rpc_args"

\* two results agree on acceptance: both succeed with the same bound
\* sequence, or both fail
AgreeOnAcceptance(r1, r2) ==
    \/ IsOk(r1) /\ r1 = r2
    \/ IsErr(r1) /\ IsErr(r2)

\* C26: for every declared-name list and every payload the copy of
\* get_rpc_args in jsonrpcapi succeeds on exactly the inputs the copy of
\* jsonrpc and jsonrpc_interface succeeds on, with the same bound sequence;
\* on failure the two differ at most in the error reported.
C26_BinderCopiesAgree ==
    /\ ApiBound => AgreeOnAcceptance(bound, get_rpc_args(names, params))
    /\ Bound => AgreeOnAcceptance(bound, api_get_rpc_args(names, params))

C26_Witness ==
    /\ ApiBound
    /\ names = <<"b", "a">>
    /\ params = ParamsMap([k \in {"a", "b"} |-> IF k = "a" THEN Num(1) ELSE Arr(<<>>)])
    /\ bound = Ok(<<Arr(<<>>), Num(1)>>)
    /\ get_rpc_args(names, params) = bound

\* C10: a MethodCall that fails at any stage yields Output::Failure with the
\* corresponding error: unknown method, binding error, decode error, and a
\* procedure returning the failure variant of a Result (server-error code,
\* failure payload in `data`).
C10_EveryFailureIsFailureOutput ==
    (CallHandled /\ call.kind = "MethodCall")
        => /\ call.method \notin DOMAIN Registry
                => output = Some(Failure(call.jsonrpc, method_not_found, call.id))
           /\ (call.method \in DOMAIN Registry /\ IsErr(DecodedArgs(call)))
                => output = Some(Failure(call.jsonrpc, IntoError(DecodedArgs(call)[2]), call.id))
           /\ ReturnsFailureVariant(call)
                => output = Some(Failure(call.jsonrpc,
                                Error(<<"ServerError", 8>>, <<"Server error.">>,
                                      Some(to_value(AdderImpl(call.method, DecodedArgs(call)[2])[2]))),
                                call.id))

-----------------------------------------------------------------------------
(* Specification of the result encoder: draw a return value, encode it *)

\* return values that are not a Result
PlainReturns ==
    {RUnit, RNone}
    \cup {RInt(n) : n \in -1..1}
    \cup {RSome(RInt(n)) : n \in -1..1}
    \cup {RSome(RNone)}
    \cup {RSome(RSome(RInt(n))) : n \in -1..1}
    \cup {RString(str) : str \in {"hello", "tada!"}}
    \cup {RVec(v) : v \in SeqsUpTo(0..1, MaxVecLen)}

ReturnValues ==
    PlainReturns \cup {ROk(x) : x \in PlainReturns} \cup {RErr(x) : x \in PlainReturns}

InitEncode ==
    /\ BindIdle
    /\ key_order \in KeyOrders
    /\ ServerIdle
    /\ ret \in ReturnValues
    /\ encoded = Pending
    /\ DecodeIdle
    /\ RegisterIdle

ToResult ==
    /\ op = "idle"
    /\ op' = "to_result"
    /\ encoded' = to_result(ret)
    /\ UNCHANGED <<bindVars, key_order, serverVars, ret, decodeVars, registerVars>>

NextEncode == ToResult

SpecEncode == InitEncode /\ [][NextEncode]_vars

Encoded == op = "to_result"

\* C18: to_result encodes Ok(k) to Ok(encoding of k), Err(e) to
\* Err(ErrorObject{the one server-error code, "Server error.", Some(encoding
\* of e)}), and a value that is not a Result to Ok(encoding of the value).
C18_ResultEncoder ==
    Encoded
        => /\ ret[1] = "ok" => encoded = Ok(to_value(ret[2]))
           /\ ret[1] = "err"
                => /\ IsErr(encoded)
                   /\ encoded[2].code = <<"ServerError", 8>>
                   /\ encoded[2].message = <<"Server error.">>
                   /\ encoded[2].data = Some(to_value(ret[2]))
           /\ ret[1] \notin {"ok", "err"} => encoded = Ok(to_value(ret))

C18_Witness ==
    /\ Encoded
    /\ ret = RErr(RString("tada!"))
    /\ encoded = Err([code |-> <<"ServerError", 8>>,
                      message |-> <<"Server error.">>,
                      data |-> Some(Str("tada!"))])

\* the Rust types a drawn value can have
TypesOf(t) ==
    CASE t[1] = "unit" -> {"()"}
      [] t[1] = "int" -> {"isize"}
      [] t[1] = "string" -> {"String"}
      [] t[1] = "vec" -> {"Vec<usize>"}
      [] t[1] = "none" -> {"Option<isize>", "Option<Option<isize>>"}
      [] t[1] = "some" ->
            IF t[2][1] = "int" THEN {"Option<isize>"} ELSE {"Option<Option<isize>>"}

\* the data field to_result gives the failure payload e: None when absent
DataOf(e) == to_result(RErr(e))[2].data

\* decoding the data field at type typ recovers the failure payload e
RoundTrips(e, typ) ==
    /\ IsSome(DataOf(e))
    /\ from_value(typ, DataOf(e)[2]) = Ok(e)

\* no other failure payload of type typ gets the data field of e
DataDistinct(e, typ) ==
    \A e2 \in PlainReturns : (typ \in TypesOf(e2) /\ e2 # e) => DataOf(e2) # DataOf(e)

\* the failure channel was encoded
FailureEncoded == Encoded /\ ret[1] = "err"

\* C22 as stated: for every failure payload e, decoding the data field of
\* to_result(Err(e)) recovers e; data is always present and distinct
\* failure payloads give distinct data.
C22_FailureRoundTrip ==
    FailureEncoded
        => /\ IsSome(encoded[2].data)
           /\ encoded[2].data = DataOf(ret[2])
           /\ \A typ \in TypesOf(ret[2]) :
                 RoundTrips(ret[2], typ) /\ DataDistinct(ret[2], typ)

\* types whose serde encoding tells every two values apart: an Option of an
\* Option encodes both None and Some(None) as null
EncodingInjective(typ) == typ # "Option<Option<isize>>"

\* C22 amended: data is always present, and for every failure payload e of
\* a type whose encoding is injective, decoding the data field of
\* to_result(Err(e)) recovers e and distinct payloads give distinct data.
C22_FailureRoundTripInjectiveTypes ==
    FailureEncoded
        => /\ IsSome(encoded[2].data)
           /\ encoded[2].data = DataOf(ret[2])
           /\ \A typ \in TypesOf(ret[2]) :
                 EncodingInjective(typ)
                    => RoundTrips(ret[2], typ) /\ DataDistinct(ret[2], typ)

C22_Witness ==
    /\ FailureEncoded
    /\ ret = RErr(RSome(RInt(1)))
    /\ encoded[2].data = Some(Num(1))
    /\ from_value("Option<isize>", encoded[2].data[2]) = Ok(RSome(RInt(1)))

-----------------------------------------------------------------------------
(* Specification of the typed argument decoder: draw a handler closure and  *)
(* a bound argument list of its declared length, run the closure            *)

DecodeValues == {Null, Num(1), Str("acct"), Arr(<<>>), SlateObj, BlockFeesObj}

\* argument lists of length n
ArgLists(n) == [1..n -> DecodeValues]

InitDecode ==
    /\ BindIdle
    /\ key_order \in KeyOrders
    /\ ServerIdle
    /\ EncodeIdle
    /\ \/ /\ hmethod \in DOMAIN Registry
          /\ hargs \in ArgLists(Len(Registry[hmethod].arg_names))
       \/ /\ hmethod \in DOMAIN ApiRegistry
          /\ hargs \in ArgLists(Len(ApiRegistry[hmethod].arg_names))
    /\ hresult = Pending
    /\ RegisterIdle

\* run the closure the macro generated for a method of the Adder trait
DecodeGenerated ==
    /\ op = "idle"
    /\ hmethod \in DOMAIN Registry
    /\ op' = "handler"
    /\ hresult' = handler(hmethod, hargs).result
    /\ invoked' = handler(hmethod, hargs).invoked
    /\ UNCHANGED <<bindVars, key_order, call, output, request, response>>
    /\ UNCHANGED <<encodeVars, hmethod, hargs, registerVars>>

\* run a hand-written closure of the foreign API
DecodeApi ==
    /\ op = "idle"
    /\ hmethod \in DOMAIN ApiRegistry
    /\ op' = "api_handler"
    /\ \E ok \in BOOLEAN :
        /\ hresult' = api_handler(hmethod, hargs, ok).result
        /\ invoked' = api_handler(hmethod, hargs, ok).invoked
    /\ UNCHANGED <<bindVars, key_order, call, output, request, response>>
    /\ UNCHANGED <<encodeVars, hmethod, hargs, registerVars>>

NextDecode == DecodeGenerated \/ DecodeApi

SpecDecode == InitDecode /\ [][NextDecode]_vars

Decoded == op \in {"handler", "api_handler"}

\* the declared parameter names and types of the closure that ran
DeclaredNamesOf(m) ==
    IF m \in DOMAIN Registry THEN Registry[m].arg_names ELSE ApiRegistry[m].arg_names
DeclaredTypesOf(m) ==
    IF m \in DOMAIN Registry THEN Registry[m].arg_types ELSE ApiRegistry[m].arg_types

\* positions whose value does not decode to its declared type
FailingPositions ==
    {i \in DOMAIN hargs : IsErr(from_value(DeclaredTypesOf(hmethod)[i], hargs[i]))}

\* C19: on the first position whose value does not decode to its declared
\* type the decoder fails with InvalidArgStructure{name, index}, index being
\* the zero-based position of that value and name the declared parameter
\* name at that position; later positions are not reported and the
\* procedure is not invoked.
C19_FirstDecodeFailureReported ==
    (Decoded /\ FailingPositions # {})
        => /\ hresult = Err(InvalidArgStructure(
                              DeclaredNamesOf(hmethod)[Min(FailingPositions)],
                              Min(FailingPositions) - 1))
           /\ invoked = <<>>

-----------------------------------------------------------------------------
(* Specification of registration: an IoHandler is built by the generated    *)
(* into_iohandler or starts empty, and add_rpc_method registers on it.      *)
(* A method name is kept as the sequence of its characters.                 *)

ReservedPrefix == <<"r", "p", "c", ".">>

\* str::starts_with
starts_with(str, prefix) ==
    /\ Len(str) >= Len(prefix)
    /\ SubSeq(str, 1, Len(prefix)) = prefix

\* method identifiers of a trait: a Rust identifier holds no '.'
Idents == {<<"a">>, <<"r", "p", "c">>}

\* the traits handed to the macro: method identifiers, distinct within a trait
Traits == {tr \in SeqsUpTo(Idents, 2) : IsInjective(tr)}

\* names handed to add_rpc_method: any &'static str
MethodNames == Idents \cup {<<"r", "p", "c", ".", "x">>}

\* the closures handed to add_rpc_method
Closures == {"cb1", "cb2"}

\* the closure add_handler generates for a method of the trait
Generated == "generated"

\* IoHandler::add_method: insert into the map of methods
add_method(io, name, cb) ==
    [n \in DOMAIN io \cup {name} |-> IF n = name THEN cb ELSE io[n]]

\* the handlers spliced into into_iohandler run one after the other, from
\* position i of the trait on
RECURSIVE AddHandlers(_, _, _)
AddHandlers(io, tr, i) ==
    IF i > Len(tr) THEN io ELSE AddHandlers(add_method(io, tr[i], Generated), tr, i + 1)

\* impl_server: reject a trait with a method identifier starting with
\* "rpc.", else generate into_iohandler
impl_server(tr) ==
    IF \E i \in DOMAIN tr : starts_with(tr[i], ReservedPrefix)
        THEN Err(<<"ReservedMethodPrefix">>)
        ELSE Ok(AddHandlers(<<>>, tr, 1))

InitRegister ==
    /\ BindIdle
    /\ key_order \in KeyOrders
    /\ ServerIdle
    /\ EncodeIdle
    /\ DecodeIdle
    /\ RegisterIdle

\* into_iohandler of a trait the macro accepted
IntoIohandler ==
    /\ op = "idle"
    /\ \E tr \in Traits :
        /\ IsOk(impl_server(tr))
        /\ registry' = impl_server(tr)[2]
        /\ registrations' = [i \in DOMAIN tr |-> <<tr[i], Generated>>]
    /\ op' = "into_iohandler"
    /\ UNCHANGED <<bindVars, key_order, serverVars, encodeVars, decodeVars, callers>>

\* add_rpc_method(iohandler, name, arg_names, cb)
AddRpcMethod ==
    /\ op \in {"idle", "into_iohandler", "add_rpc_method"}
    /\ Len(registrations) < MaxRegs
    /\ \E name \in MethodNames, cb \in Closures :
        /\ registry' = add_method(registry, name, cb)
        /\ registrations' = Append(registrations, <<name, cb>>)
    /\ op' = "add_rpc_method"
    /\ UNCHANGED <<bindVars, key_order, serverVars, encodeVars, decodeVars, callers>>

NextRegister == IntoIohandler \/ AddRpcMethod

SpecRegister == InitRegister /\ [][NextRegister]_vars

\* the handler a name was registered with first
FirstRegistered(name) ==
    registrations[Min({i \in DOMAIN registrations : registrations[i][1] = name})][2]

\* C20: after any sequence of registrations the registry holds no name
\* beginning with the reserved prefix "rpc." and each name maps to the
\* handler of its first registration (a registration under a reserved or an
\* already registered name fails and leaves the registry unchanged).
C20_RegistryRejectsReservedAndDuplicate ==
    \A name \in DOMAIN registry :
        /\ ~starts_with(name, ReservedPrefix)
        /\ registry[name] = FirstRegistered(name)

-----------------------------------------------------------------------------
(* Specification of concurrent dispatch: the registry is built once, then   *)
(* every caller runs handle_call, handle_parsed or handle_raw on its own    *)
(* input through &self, one call at a time and in steps that interleave     *)
(* freely with the steps of the other callers.                              *)

Callers == 1..MaxCallers

\* the closure registered for method m: it captures m's declared names and
\* handler
Closure(m) == <<"closure", m>>

\* into_iohandler for the Adder trait
AdderIoHandler == [m \in DOMAIN Registry |-> Closure(m)]

\* the inputs a caller may bring: <<entry point, input>>
ConcurrentInputs ==
    { <<"handle_call",
        MethodCall(V2, "wrapping_add", ParamsArray(<<Num(1), Num(1)>>), IdNum(1))>>,
      <<"handle_call", Notification(V2, "succeed", ParamsArray(<<>>))>>,
      <<"handle_parsed",
        Single(MethodCall(V2, "nonexist", ParamsArray(<<>>), IdNum(2)))>>,
      <<"handle_parsed",
        Batch(<<MethodCall(V2, "fail", ParamsNone, IdNull),
                MethodCall(V2, "wrapping_add",
                           ParamsMap([k \in {"notanarg"} |-> Num(1)]), IdNum(2))>>)>>,
      <<"handle_raw",
        RequestText(Batch(<<Invalid(IdNum(1)),
                            MethodCall(V2, "wrapping_add",
                                       ParamsArray(<<Num(1), Num(1)>>), IdNum(1))>>))>>,
      <<"handle_raw", OtherText("{")>> }

\* a caller before its first step
NewCaller(in) ==
    [entry |-> in[1], input |-> in[2], pc |-> "start", calls |-> <<>>,
     found |-> None, outputs |-> <<>>, response |-> Pending]

\* the Request an input stands for, and its calls in order
RequestOf(entry, input) ==
    CASE entry = "handle_call" -> Single(input)
      [] entry = "handle_parsed" -> input
      [] entry = "handle_raw" -> unwrap_or(from_str(input), Single(Invalid(IdNull)))

CallsOf(req) == IF req[1] = "Single" THEN <<req[2]>> ELSE req[2]

\* the methods map of the IoHandler read through &self
lookup(reg, method) == IF method \in DOMAIN reg THEN Some(reg[method]) ELSE None

\* run the closure found, or report that none was
RunFound(found, ps) ==
    IF IsSome(found) THEN rpc_method(found[2][2], ps) ELSE Ret(Err(method_not_found), <<>>)

\* the output handle_call builds for call c from what handle returned (h)
CallOutput(c, h) ==
    IF c.kind = "Notification" THEN Ret(None, h.invoked) ELSE MethodCallOutput(c, h)

\* the response an entry point builds from the outputs collected
ResponseOf(entry, req, outputs) ==
    CASE entry = "handle_call" ->
            IF outputs = <<>> THEN None ELSE Some(outputs[1])
      [] req[1] = "Single" ->
            IF outputs = <<>>
                THEN None
                ELSE IF entry = "handle_raw"
                    THEN Some(to_string(Single(outputs[1])))
                    ELSE Some(Single(outputs[1]))
      [] OTHER ->
            IF outputs = <<>>
                THEN None
                ELSE IF entry = "handle_raw"
                    THEN Some(to_string(Batch(outputs)))
                    ELSE Some(Batch(outputs))

InitConcurrent ==
    /\ BindIdle
    /\ key_order \in KeyOrders
    /\ ServerIdle
    /\ EncodeIdle
    /\ DecodeIdle
    /\ registry = AdderIoHandler
    /\ registrations = <<>>
    /\ callers \in [Callers -> {NewCaller(in) : in \in ConcurrentInputs}]

\* caller p takes its input apart into the calls to dispatch
Start(p) ==
    /\ callers[p].pc = "start"
    /\ callers' = [callers EXCEPT
            ![p].calls = CallsOf(RequestOf(callers[p].entry, callers[p].input)),
            ![p].pc = "next"]
    /\ UNCHANGED <<op, bindVars, key_order, serverVars, encodeVars, decodeVars,
                   registry, registrations>>

\* handle_call on the next call of caller p: an Invalid call is answered at
\* once, any other call looks its method up in the registry
Lookup(p) ==
    /\ callers[p].pc = "next"
    /\ callers[p].calls # <<>>
    /\ IF Head(callers[p].calls).kind = "Invalid"
          THEN callers' = [callers EXCEPT
                  ![p].outputs = Append(@, Failure(V2, invalid_request,
                                                   Head(callers[p].calls).id)),
                  ![p].calls = Tail(@)]
          ELSE callers' = [callers EXCEPT
                  ![p].found = lookup(registry, Head(callers[p].calls).method),
                  ![p].pc = "run"]
    /\ UNCHANGED <<op, bindVars, key_order, serverVars, encodeVars, decodeVars,
                   registry, registrations>>

\* the outputs of caller p after call c got output o
WithOutput(outputs, o) == IF IsSome(o.result) THEN Append(outputs, o.result[2]) ELSE outputs

\* variant of Run that takes the closure out of the registry to run it
Run_TakesClosure(p) ==
    /\ callers[p].pc = "run"
    /\ callers' = [callers EXCEPT
            ![p].outputs =
                WithOutput(@, CallOutput(Head(callers[p].calls),
                                         RunFound(callers[p].found,
                                                  Head(callers[p].calls).params))),
            ![p].calls = Tail(@),
            ![p].found = None,
            ![p].pc = "next"]
    /\ invoked' = invoked \o RunFound(callers[p].found,
                                      Head(callers[p].calls).params).invoked
    /\ registry' = [m \in DOMAIN registry \ {Head(callers[p].calls).method} |->
                        registry[m]]
    /\ UNCHANGED <<op, bindVars, key_order, call, output, request, response,
                   encodeVars, decodeVars, registrations>>

\* caller p runs the closure it found on the call's params and turns what it
\* returns into the call's output
Run(p) ==
    /\ callers[p].pc = "run"
    /\ callers' = [callers EXCEPT
            ![p].outputs =
                WithOutput(@, CallOutput(Head(callers[p].calls),
                                         RunFound(callers[p].found,
                                                  Head(callers[p].calls).params))),
            ![p].calls = Tail(@),
            ![p].found = None,
            ![p].pc = "next"]
    /\ invoked' = invoked \o RunFound(callers[p].found,
                                      Head(callers[p].calls).params).invoked
    /\ UNCHANGED <<op, bindVars, key_order, call, output, request, response,
                   encodeVars, decodeVars, registry, registrations>>

\* caller p has dispatched all its calls and builds its response
Finish(p) ==
    /\ callers[p].pc = "next"
    /\ callers[p].calls = <<>>
    /\ callers' = [callers EXCEPT
            ![p].response = ResponseOf(callers[p].entry,
                                       RequestOf(callers[p].entry, callers[p].input),
                                       callers[p].outputs),
            ![p].pc = "done"]
    /\ UNCHANGED <<op, bindVars, key_order, serverVars, encodeVars, decodeVars,
                   registry, registrations>>

NextConcurrent == \E p \in Callers : Start(p) \/ Lookup(p) \/ Run(p) \/ Finish(p)

SpecConcurrent == InitConcurrent /\ [][NextConcurrent]_vars

\* what the entry point returns for the input when it is dispatched alone
Alone(entry, input) ==
    CASE entry = "handle_call" -> handle_call(input).result
      [] entry = "handle_parsed" -> handle_parsed(input).result
      [] entry = "handle_raw" -> handle_raw(input).result

\* C21: under any interleaving of concurrent callers no dispatch step adds,
\* removes or changes a registry entry, and every caller gets the response
\* its input gets when dispatched alone.
C21_RegistryReadOnlyUnderDispatch ==
    /\ registry = AdderIoHandler
    /\ \A p \in DOMAIN callers :
          callers[p].pc = "done"
              => callers[p].response = Alone(callers[p].entry, callers[p].input)

C21_Witness ==
    /\ \A p \in DOMAIN callers :
          /\ callers[p].pc = "done"
          /\ callers[p].entry = "handle_call"
          /\ callers[p].input.kind = "MethodCall"
          /\ callers[p].response = Some(Success(V2, Num(2), IdNum(1)))
    /\ Len(invoked) = MaxCallers
    /\ registry = AdderIoHandler

====
